---- MODULE Spec2Model ----
(***************************************************************************)
(* A model of the lpsolve wrapper (src/src/lib.rs).  A Problem wraps one   *)
(* native solver handle (lprec).  Three specifications share the          *)
(* variables:                                                              *)
(*                                                                         *)
(*   Spec       one Problem after construction, the methods that build and *)
(*              cut the model: add_column, add_constraint,                 *)
(*              set_objective_function, del_column, del_constraint;        *)
(*   QuerySpec  one Problem after construction, the methods that read it:  *)
(*              the index-taking queries, solve, get_solution_variables    *)
(*              (and the two deletions, which change its size);            *)
(*   LifeSpec   the lifetime of Problem values and of native handles:      *)
(*              new, read_lp, read_freemps, read_fixedmps, clone,          *)
(*              to_lprec, from_lprec and drop.                             *)
(*                                                                         *)
(* A Rust panic (a failed assert!, or panic!) ends the run: no method is   *)
(* called after it.  Slices are sequences; element i of a Rust slice is    *)
(* element i+1 of the sequence.                                            *)
(***************************************************************************)
EXTENDS Integers, Sequences, FiniteSets

VARIABLES
    columns,     \* native model: columns[j][i+1] is the coefficient of row i in column j
    rowtype,     \* native model: rowtype[i] is the constraint type of row i (1..num_rows)
    spx_status,  \* native model: <<>> before any solve, else <<raw code of the last solve>>
    problems,    \* LifeSpec: the live Problem values, slot -> [lprec, by] or NoProblem;
                 \* by names the code that built the value: "cptr", "clone", "from_lprec"
    handles,     \* LifeSpec: native handle -> [state, deletes]
    ptrs,        \* LifeSpec: raw pointers the caller got from to_lprec
    wrapped,     \* LifeSpec: handles that were given to from_lprec
    last         \* the last call: [op, arg, native, raw, out, len]

model == <<columns, rowtype, spx_status>>
life  == <<problems, handles, ptrs, wrapped>>
vars  == <<columns, rowtype, spx_status, problems, handles, ptrs, wrapped, last>>

----------------------------------------------------------------------------
(* Bounds of the model *)

MaxRows == 1
MaxCols == 2
\* raw status codes range over the declared discriminants -2..13 widened by RawMargin
RawMargin == 1
MaxProblems == 2
MaxHandles == 2

Max(a, b) == IF a >= b THEN a ELSE b

\* f64 coefficients: two values are enough to tell a stored coefficient from a changed one
Coef == {0, 1}
MaxLen == Max(MaxRows, MaxCols) + 2
Slices == UNION {[1..n -> Coef] : n \in 0..MaxLen}
Lengths == 0..MaxLen
Indices == (0 - 1)..(Max(MaxRows, MaxCols) + 2)
RawCodes == (0 - 2 - RawMargin)..(13 + RawMargin)

----------------------------------------------------------------------------
(* Enumerations *)

\* ConstraintType as libc::c_int
ConstraintType == [Le |-> 1, Eq |-> 3, Ge |-> 2, Free |-> 0]
ConstraintKinds == {"Le", "Eq", "Ge", "Free"}

\* SolveStatus: the declared discriminant of each variant
SolveStatus ==
    [OutOfMemory |-> 0 - 2, NotRun |-> 0 - 1, Optimal |-> 0, Suboptimal |-> 1,
     Infeasible |-> 2, Unbounded |-> 3, Degenerate |-> 4, NumericalFailure |-> 5,
     UserAbort |-> 6, Timeout |-> 7, Presolved |-> 8, ProcFail |-> 9,
     ProcBreak |-> 11, FeasibleFound |-> 12, NoFeasibleFound |-> 13]
Variants == DOMAIN SolveStatus
Discriminants == {SolveStatus[v] : v \in Variants}

----------------------------------------------------------------------------
(* The call record *)

Call(op, arg, native, raw, out, len) ==
    [op |-> op, arg |-> arg, native |-> native, raw |-> raw, out |-> out, len |-> len]

NoCall == Call("none", 0, FALSE, 0, "none", 0)

\* a panic unwinds: nothing is called after it
Running == last.out # "panic"

num_cols == Len(columns)
num_rows == Len(rowtype)

----------------------------------------------------------------------------
(* The native library, as far as the wrapper's methods depend on it *)

ZeroColumn(r) == [i \in 1..(r + 1) |-> 0]

\* make_lp(rows, cols): an empty model of that size
make_lp(r, c) == [j \in 1..c |-> ZeroColumn(r)]

\* add_column reads num_rows+1 elements, element 0 being the objective row
lp_add_column(values) == Append(columns, SubSeq(values, 1, num_rows + 1))

\* add_constraint reads elements 1..num_cols of the row; element 0 is not used
lp_add_constraint(coeffs) ==
    [j \in 1..num_cols |-> Append(columns[j], coeffs[j + 1])]

\* set_obj_fn reads elements 1..num_cols of the row into row 0
lp_set_obj_fn(coeffs) ==
    [j \in 1..num_cols |-> [columns[j] EXCEPT ![1] = coeffs[j + 1]]]

Remove(s, k) == [i \in 1..(Len(s) - 1) |-> IF i < k THEN s[i] ELSE s[i + 1]]

\* del_column: column 0 and columns beyond the model are refused
lp_del_column_ok(col) == col >= 1 /\ col <= num_cols
lp_del_column(col) == IF lp_del_column_ok(col) THEN Remove(columns, col) ELSE columns

\* del_constraint: row 0 and rows beyond the model are refused
lp_del_constraint_ok(row) == row >= 1 /\ row <= num_rows
lp_del_constraint_columns(row) ==
    IF lp_del_constraint_ok(row)
    THEN [j \in 1..num_cols |-> Remove(columns[j], row + 1)]
    ELSE columns
lp_del_constraint_rowtype(row) ==
    IF lp_del_constraint_ok(row) THEN Remove(rowtype, row) ELSE rowtype

\* statuses after which the native model holds a solution
SolutionStatuses == {SolveStatus.Optimal, SolveStatus.Suboptimal}

\* get_variables copies one value per column when a solution is held, else nothing
lp_get_variables ==
    IF spx_status # <<>> /\ spx_status[1] \in SolutionStatuses THEN num_cols ELSE 0

----------------------------------------------------------------------------
(* The wrapper's methods: the conditions and results the code computes *)

\* a variant of add_column's assertion: "at least as many elements", as its comment words it
add_column_assert_at_least(len) == len >= num_rows + 1

\* add_column: assert!(values.len() == self.num_rows() as usize + 1)
add_column_assert(len) == len = num_rows + 1

\* add_constraint: assert!(coeffs.len() >= self.num_cols() as usize + 1)
add_constraint_assert(len) == len >= num_cols + 1

\* set_objective_function: assert!(coeffs.len() >= self.num_cols() as usize + 1)
set_objective_function_assert(len) == len >= num_cols + 1

\* a variant of del_column that shifts the index by one
del_column_arg_shifted(col) == col + 1

\* del_column: the index handed to lp::del_column
del_column_arg(col) == col

\* del_constraint: the index handed to lp::del_constraint
del_constraint_arg(row) == row

\* is_negative, get_variable_type, is_unbounded, is_integer: if col > self.num_cols()+1
col_out_of_bounds(col) == col > num_cols + 1

\* get_constraint_type: if row > self.num_rows()+1
row_out_of_bounds(row) == row > num_rows + 1

\* get_constraint_type: the match on the native result
constraint_type_match(res) ==
    CASE res = 1 -> "Some(Le)"
      [] res = 2 -> "Some(Ge)"
      [] res = 3 -> "Some(Eq)"
      [] OTHER   -> "None"

\* solve: the match on the raw status
solve_match(raw) ==
    CASE raw = 0 - 2 -> "OutOfMemory"
      [] raw = 0 - 1 -> "NotRun"
      [] raw = 0  -> "Optimal"
      [] raw = 1  -> "Suboptimal"
      [] raw = 2  -> "Infeasible"
      [] raw = 3  -> "Unbounded"
      [] raw = 4  -> "Degenerate"
      [] raw = 5  -> "NumericalFailure"
      [] raw = 6  -> "UserAbort"
      [] raw = 7  -> "Timeout"
      [] raw = 9  -> "Presolved"
      [] raw = 10 -> "ProcFail"
      [] raw = 11 -> "ProcBreak"
      [] raw = 12 -> "FeasibleFound"
      [] raw = 13 -> "NoFeasibleFound"
      [] OTHER    -> "panic"

\* a variant of get_solution_variables' test that also refuses a buffer of exactly cols
solution_buffer_short_or_equal(len) == len <= num_cols

\* get_solution_variables: if vars.len() < cols as usize
solution_buffer_short(len) == len < num_cols

\* a variant of get_solution_variables that returns the whole buffer, not truncated
solution_slice_whole(len) == len

\* get_solution_variables: &mut vars[..cols as usize]
solution_slice_len(len) == num_cols

----------------------------------------------------------------------------
(* Spec and QuerySpec: one Problem *)

\* Problem::new(r, c): an all-zero model of r rows and c columns; the type the
\* native library gives the initial rows is not fixed here
Init ==
    /\ \E r \in 0..MaxRows, c \in 0..MaxCols :
          /\ columns = make_lp(r, c)
          /\ rowtype \in [1..r -> {ConstraintType[k] : k \in ConstraintKinds}]
    /\ spx_status = <<>>
    /\ problems = <<>>
    /\ handles = <<>>
    /\ ptrs = {}
    /\ wrapped = {}
    /\ last = NoCall

Panic(op, arg) == Call(op, arg, FALSE, 0, "panic", 0)

AddColumn ==
    /\ Running
    /\ \E len \in Lengths :
          IF add_column_assert(len)
          THEN /\ num_cols < MaxCols
               /\ \E values \in [1..len -> Coef] : columns' = lp_add_column(values)
               /\ last' = Call("add_column", len, TRUE, 1, "true", 0)
               /\ UNCHANGED <<rowtype, spx_status>>
          ELSE /\ last' = Panic("add_column", len)
               /\ UNCHANGED model
    /\ UNCHANGED life

AddConstraint ==
    /\ Running
    /\ \E len \in Lengths :
          IF add_constraint_assert(len)
          THEN /\ num_rows < MaxRows
               /\ \E coeffs \in [1..len -> Coef], kind \in ConstraintKinds :
                     /\ columns' = lp_add_constraint(coeffs)
                     /\ rowtype' = Append(rowtype, ConstraintType[kind])
               /\ last' = Call("add_constraint", len, TRUE, 1, "true", 0)
               /\ UNCHANGED spx_status
          ELSE /\ last' = Panic("add_constraint", len)
               /\ UNCHANGED model
    /\ UNCHANGED life

SetObjectiveFunction ==
    /\ Running
    /\ \E len \in Lengths :
          IF set_objective_function_assert(len)
          THEN /\ \E coeffs \in [1..len -> Coef] : columns' = lp_set_obj_fn(coeffs)
               /\ last' = Call("set_objective_function", len, TRUE, 1, "true", 0)
               /\ UNCHANGED <<rowtype, spx_status>>
          ELSE /\ last' = Panic("set_objective_function", len)
               /\ UNCHANGED model
    /\ UNCHANGED life

Bool(b) == IF b THEN "true" ELSE "false"

DelColumn ==
    /\ Running
    /\ \E col \in Indices :
          LET a == del_column_arg(col) IN
          /\ columns' = lp_del_column(a)
          /\ last' = Call("del_column", col, TRUE, IF lp_del_column_ok(a) THEN 1 ELSE 0,
                          Bool(lp_del_column_ok(a)), 0)
    /\ UNCHANGED <<rowtype, spx_status>>
    /\ UNCHANGED life

DelConstraint ==
    /\ Running
    /\ \E row \in Indices :
          LET a == del_constraint_arg(row) IN
          /\ columns' = lp_del_constraint_columns(a)
          /\ rowtype' = lp_del_constraint_rowtype(a)
          /\ last' = Call("del_constraint", row, TRUE,
                          IF lp_del_constraint_ok(a) THEN 1 ELSE 0,
                          Bool(lp_del_constraint_ok(a)), 0)
    /\ UNCHANGED spx_status
    /\ UNCHANGED life

\* a column query: None from the guard, else Some(native result == 1); the native
\* result of a query is not fixed here, for any index
ColumnQuery(op, col, yes, no) ==
    IF col_out_of_bounds(col)
    THEN {Call(op, col, FALSE, 0, "None", 0)}
    ELSE {Call(op, col, TRUE, res, IF res = 1 THEN yes ELSE no, 0) : res \in {0, 1}}

IsNegative ==
    /\ Running
    /\ \E col \in Indices : last' \in ColumnQuery("is_negative", col, "Some(true)", "Some(false)")
    /\ UNCHANGED <<model, life>>

GetVariableType ==
    /\ Running
    /\ \E col \in Indices :
          last' \in ColumnQuery("get_variable_type", col, "Some(Binary)", "Some(Float)")
    /\ UNCHANGED <<model, life>>

IsUnbounded ==
    /\ Running
    /\ \E col \in Indices : last' \in ColumnQuery("is_unbounded", col, "Some(true)", "Some(false)")
    /\ UNCHANGED <<model, life>>

IsInteger ==
    /\ Running
    /\ \E col \in Indices : last' \in ColumnQuery("is_integer", col, "Some(true)", "Some(false)")
    /\ UNCHANGED <<model, life>>

\* get_constr_type answers the stored type of a row of the model; what it answers for
\* any other index is not fixed here
lp_get_constr_type(row) ==
    IF row >= 1 /\ row <= num_rows
    THEN {rowtype[row]}
    ELSE {0 - 1, 0, 1, 2, 3}

GetConstraintType ==
    /\ Running
    /\ \E row \in Indices :
          IF row_out_of_bounds(row)
          THEN last' = Call("get_constraint_type", row, FALSE, 0, "None", 0)
          ELSE \E res \in lp_get_constr_type(row) :
                  last' = Call("get_constraint_type", row, TRUE, res,
                               constraint_type_match(res), 0)
    /\ UNCHANGED <<model, life>>

Solve ==
    /\ Running
    /\ \E raw \in RawCodes :
          /\ spx_status' = <<raw>>
          /\ last' = Call("solve", 0, TRUE, raw, solve_match(raw), 0)
    /\ UNCHANGED <<columns, rowtype>>
    /\ UNCHANGED life

GetSolutionVariables ==
    /\ Running
    /\ \E len \in Lengths :
          IF solution_buffer_short(len)
          THEN last' = Call("get_solution_variables", len, FALSE, 0, "None", 0)
          ELSE last' = Call("get_solution_variables", len, TRUE, lp_get_variables,
                            "Some", solution_slice_len(len))
    /\ UNCHANGED <<model, life>>

Next ==
    \/ AddColumn
    \/ AddConstraint
    \/ SetObjectiveFunction
    \/ DelColumn
    \/ DelConstraint

Spec == Init /\ [][Next]_vars

QueryNext ==
    \/ IsNegative
    \/ GetVariableType
    \/ IsUnbounded
    \/ IsInteger
    \/ GetConstraintType
    \/ Solve
    \/ GetSolutionVariables
    \/ DelColumn
    \/ DelConstraint

QuerySpec == Init /\ [][QueryNext]_vars

----------------------------------------------------------------------------
(* LifeSpec: Problem values and native handles *)

\* the null pointer
NULL == 0

Slots == 1..MaxProblems
Handles == 1..MaxHandles

\* an empty slot: no Problem value lives there
NoProblem == [lprec |-> NULL, by |-> "none"]

Live(slot) == problems[slot].by # "none"

\* a new Problem value takes the first empty slot (slots only name the values)
EmptySlots == {slot \in Slots : ~Live(slot)}
FirstEmpty(slot) == slot \in EmptySlots /\ \A t \in EmptySlots : slot <= t

FreeHandles == {h \in Handles : handles[h].state = "free"}

\* what a native constructor (make_lp, read_LP, read_freeMPS, read_MPS, copy_lp) can
\* return: NULL on failure, else a handle that was never handed out before
native_alloc ==
    {NULL} \cup (IF FreeHandles = {} THEN {}
                 ELSE {CHOOSE h \in FreeHandles : \A g \in FreeHandles : h <= g})

Allocated(ptr) ==
    IF ptr = NULL THEN handles ELSE [handles EXCEPT ![ptr].state = "live"]

\* a variant of cptr! without the null test
cptr_unchecked(e) == "Some"

\* cptr!: if $e.is_null() { None } else { Some(Problem { lprec: $e }) }
cptr(e) == IF e = NULL THEN "None" ELSE "Some"

\* clone: panics on a null copy
clone_check(ptr) == IF ptr = NULL THEN "panic" ELSE "Problem"

\* a variant of clone that keeps the source's handle (a shallow copy)
clone_lprec_shallow(self_lprec, ptr) == self_lprec

\* clone: Problem { lprec: ptr }
clone_lprec(self_lprec, ptr) == ptr

\* from_lprec: Problem { lprec: lprec }
from_lprec(lprec) == lprec

\* to_lprec: self.lprec
to_lprec(self_lprec) == self_lprec

\* drop: the pointer handed to lp::delete_lp
drop_arg(self_lprec) == self_lprec

\* delete_lp frees the handle it is given (NULL excepted) and counts the call
delete_lp(ptr) ==
    IF ptr = NULL THEN handles
    ELSE [handles EXCEPT ![ptr] = [state |-> "deleted", deletes |-> @.deletes + 1]]

LifeInit ==
    /\ columns = <<>>
    /\ rowtype = <<>>
    /\ spx_status = <<>>
    /\ problems = [slot \in Slots |-> NoProblem]
    /\ handles = [h \in Handles |-> [state |-> "free", deletes |-> 0]]
    /\ ptrs = {}
    /\ wrapped = {}
    /\ last = NoCall

\* new, read_lp, read_freemps, read_fixedmps: the native constructor, then cptr!
Construct(op) ==
    /\ \E slot \in Slots, ptr \in native_alloc :
          /\ FirstEmpty(slot)
          /\ handles' = Allocated(ptr)
          /\ problems' = IF cptr(ptr) = "Some"
                         THEN [problems EXCEPT ![slot] = [lprec |-> ptr, by |-> "cptr"]]
                         ELSE problems
          /\ last' = Call(op, 0, TRUE, ptr, cptr(ptr), 0)
    /\ UNCHANGED <<model, ptrs, wrapped>>

New ==
    /\ Running
    /\ Construct("new")

ReadLp ==
    /\ Running
    /\ Construct("read_lp")

ReadFreemps ==
    /\ Running
    /\ Construct("read_freemps")

ReadFixedmps ==
    /\ Running
    /\ Construct("read_fixedmps")

Clone ==
    /\ Running
    /\ \E src \in Slots, dst \in Slots, ptr \in native_alloc :
          /\ Live(src)
          /\ FirstEmpty(dst)
          /\ handles' = Allocated(ptr)
          /\ problems' = IF clone_check(ptr) = "panic"
                         THEN problems
                         ELSE [problems EXCEPT ![dst] =
                                  [lprec |-> clone_lprec(problems[src].lprec, ptr),
                                   by |-> "clone"]]
          /\ last' = Call("clone", 0, TRUE, ptr, clone_check(ptr), 0)
    /\ UNCHANGED <<model, ptrs, wrapped>>

ToLprec ==
    /\ Running
    /\ \E slot \in Slots :
          /\ Live(slot)
          /\ ptrs' = ptrs \cup {to_lprec(problems[slot].lprec)}
          /\ last' = Call("to_lprec", 0, FALSE, to_lprec(problems[slot].lprec), "ptr", 0)
    /\ UNCHANGED <<model, problems, handles, wrapped>>

\* from_lprec takes any pointer the caller holds, or null: nothing is checked
FromLprec ==
    /\ Running
    /\ \E slot \in Slots, ptr \in ptrs \cup {NULL} :
          /\ FirstEmpty(slot)
          /\ problems' = [problems EXCEPT ![slot] =
                             [lprec |-> from_lprec(ptr), by |-> "from_lprec"]]
          /\ wrapped' = wrapped \cup {ptr}
          /\ last' = Call("from_lprec", 0, FALSE, ptr, "Problem", 0)
    /\ UNCHANGED <<model, handles, ptrs>>

\* the count of delete_lp calls on one handle is capped at MaxDeletes
MaxDeletes == 2

Drop ==
    /\ Running
    /\ \E slot \in Slots :
          LET ptr == drop_arg(problems[slot].lprec) IN
          /\ Live(slot)
          /\ ptr # NULL => handles[ptr].deletes < MaxDeletes
          /\ handles' = delete_lp(ptr)
          /\ problems' = [problems EXCEPT ![slot] = NoProblem]
          /\ last' = Call("drop", 0, TRUE, ptr, "()", 0)
    /\ UNCHANGED <<model, ptrs, wrapped>>

LifeNext ==
    \/ New
    \/ ReadLp
    \/ ReadFreemps
    \/ ReadFixedmps
    \/ Clone
    \/ ToLprec
    \/ FromLprec
    \/ Drop

LifeSpec == LifeInit /\ [][LifeNext]_vars

----------------------------------------------------------------------------
(* The claims *)

\* C1 (as claimed): solve returns a SolveStatus, without panicking, for every raw
\* code that is the declared discriminant of a SolveStatus variant.
C1_SolveNeverPanics ==
    (last.op = "solve" /\ last.raw \in Discriminants) => last.out # "panic"

\* C2 (as claimed): whenever solve returns variant V for raw code r, the declared
\* discriminant of V is r.
C2_DiscriminantIsRaw ==
    (last.op = "solve" /\ last.out # "panic") => SolveStatus[last.out] = last.raw

VectorOps == {"add_column", "add_constraint", "set_objective_function"}

\* the length a full coefficient vector must have, in the state before the call
Required(op) == IF op = "add_column" THEN num_rows + 1 ELSE num_cols + 1

C4_EmptyAddsColumn ==
    [][(last'.op = "add_column" /\ last'.arg = 0)
         => (last'.out = "true" /\ Len(columns') = Len(columns) + 1)]_vars

ColumnQueries == {"is_negative", "get_variable_type", "is_unbounded", "is_integer"}

\* C5 (as claimed): the column queries answer None for every col outside
\* 1..=num_cols and get_constraint_type answers None for every row outside the
\* model's rows, and the native query is not called with such an index.
C5_OutOfBoundsIsNone ==
    /\ (last.op \in ColumnQueries /\ (last.arg < 1 \/ last.arg > num_cols))
          => (last.out = "None" /\ ~last.native)
    /\ (last.op = "get_constraint_type" /\ (last.arg < 0 \/ last.arg > num_rows))
          => (last.out = "None" /\ ~last.native)

\* C8: del_column(0) and del_constraint(0) return false and leave the model (its
\* sizes and every stored coefficient) unchanged.
C8_DeleteZeroFails ==
    [][(last'.op \in {"del_column", "del_constraint"} /\ last'.arg = 0)
         => (last'.out = "false" /\ UNCHANGED model)]_vars

\* C8 witness: del_column(0) was called on a model with rows, columns and a
\* nonzero coefficient
C8_Witness ==
    /\ last.op = "del_column"
    /\ last.arg = 0
    /\ num_rows > 0
    /\ \E j \in 1..num_cols : columns[j][1] = 1

\* no solve has run yet, or the most recent solve returned Infeasible
NoSolution == spx_status = <<>> \/ spx_status = <<SolveStatus.Infeasible>>

\* C9 (as claimed): get_solution_variables yields None when no solve has run or
\* the most recent solve returned Infeasible, whatever the size of the buffer.
C9_NoneWithoutSolution ==
    (last.op = "get_solution_variables" /\ NoSolution) => last.out = "None"

\* C9 (amended): when no solve has run or the most recent solve returned
\* Infeasible, get_solution_variables yields None only for a buffer shorter than
\* num_cols; for a buffer of at least num_cols elements it calls the native reader
\* and returns Some, as after any other solve.
C9_SolveHistoryNotConsulted ==
    (last.op = "get_solution_variables" /\ NoSolution)
       => /\ last.arg < num_cols => last.out = "None"
          /\ last.arg >= num_cols => (last.out = "Some" /\ last.native)

\* C9 witness: after an Infeasible solve, a buffer of exactly num_cols > 0 elements
\* was handed in and Some came back
C9_Witness ==
    /\ last.op = "get_solution_variables"
    /\ spx_status = <<SolveStatus.Infeasible>>
    /\ num_cols > 0
    /\ last.arg = num_cols
    /\ last.out = "Some"

\* C10: get_solution_variables returns None exactly when the buffer has fewer
\* elements than the model has columns, without calling the native reader;
\* otherwise Some of a slice of exactly num_cols elements, and the native reader
\* writes no element beyond it.
C10_SolutionSlice ==
    last.op = "get_solution_variables"
       => /\ last.out = "None" <=> last.arg < num_cols
          /\ last.out = "None" => ~last.native
          /\ last.out # "None"
                => /\ last.out = "Some"
                   /\ last.native
                   /\ last.len = num_cols
                   /\ last.raw <= last.len

\* C10 witness: after a solve that left a solution, a buffer longer than
\* num_cols > 0 came back as Some, the native reader having written num_cols values
C10_Witness ==
    /\ last.op = "get_solution_variables"
    /\ last.out = "Some"
    /\ num_cols > 0
    /\ last.arg > num_cols
    /\ last.raw = num_cols

Owners(h) == {slot \in Slots : Live(slot) /\ problems[slot].lprec = h}

\* handle h has at most one owning Problem, was deleted at most once, and no
\* Problem holds it once it is deleted
SingleOwner(h) ==
    /\ Cardinality(Owners(h)) <= 1
    /\ handles[h].deletes <= 1
    /\ handles[h].state = "deleted" => Owners(h) = {}

\* C6 (as claimed): after any sequence of new, clone, to_lprec, from_lprec and
\* drop, every native handle has a single owning Problem, is deleted at most once
\* and is held by no Problem after its deletion.
C6_SingleOwnerAlways == \A h \in Handles : SingleOwner(h)

\* C6 (amended): after any sequence of new, clone, to_lprec, from_lprec and drop,
\* every native handle that was never passed to from_lprec has a single owning
\* Problem, is deleted at most once and is held by no Problem after its deletion
\* (clone always yields a distinct handle); from_lprec wraps the pointer it is
\* given unchecked, so a handle passed to it can get a second owner.
C6_SingleOwnerUnlessWrapped == \A h \in Handles \ wrapped : SingleOwner(h)

\* C6 witness: a clone lives beside another Problem, to_lprec has handed out a
\* pointer, and a handle never passed to from_lprec has been deleted
C6_Witness ==
    /\ \E s \in Slots, t \in Slots :
          /\ s # t
          /\ problems[s].by = "clone"
          /\ Live(t)
    /\ ptrs # {}
    /\ \E h \in Handles \ wrapped : handles[h].state = "deleted"

CptrConstructors == {"new", "read_lp", "read_freemps", "read_fixedmps"}
Constructors == CptrConstructors \cup {"clone"}

NoNullProblem ==
    \A slot \in Slots : problems[slot].by \in {"cptr", "clone"} => problems[slot].lprec # NULL

\* C7 (as claimed): new, read_lp, read_freemps, read_fixedmps and clone each return
\* an explicit failed-construction result (None) when the native constructor
\* returns null, and no Problem they produce holds a null handle.
C7_NullIsNone ==
    /\ (last.op \in Constructors /\ last.raw = NULL) => last.out = "None"
    /\ NoNullProblem

\* C7 (amended): new, read_lp, read_freemps and read_fixedmps return None when the
\* native constructor returns null; clone panics when copy_lp returns null; no
\* Problem any of the five produces holds a null handle.
C7_NullIsNoneOrPanic ==
    /\ (last.op \in CptrConstructors /\ last.raw = NULL) => last.out = "None"
    /\ (last.op \in CptrConstructors /\ last.raw # NULL) => last.out = "Some"
    /\ (last.op = "clone" /\ last.raw = NULL) => last.out = "panic"
    /\ NoNullProblem

\* C7 witness: copy_lp returned null to a clone of a Problem that new or a reader
\* produced, and the clone panicked
C7_Witness ==
    /\ last.op = "clone"
    /\ last.raw = NULL
    /\ last.out = "panic"
    /\ \E slot \in Slots : problems[slot].by = "cptr"

====
